---- MODULE Spec2Model ----
(***************************************************************************)
(* State-machine model of GitHubRepositorySearcher (src/Untitled-3.js):    *)
(* the debounced, cached, abortable repository search.                     *)
(*                                                                         *)
(* Strings are sequences of one-character strings, so that trim, the query *)
(* concatenation and the base64 cache key are computed as the code does.   *)
(* The element "U+65E5" stands for one character outside Latin-1.          *)
(***************************************************************************)
EXTENDS Integers, Sequences, FiniteSets, TLC

\* ------------------------------------------------------------------ bounds
MaxTriggers == 3     \* user events (submit, change, input, clicks, keys, unload) in one run
MaxTicks == 2        \* clock steps in one run
MaxItems == 2        \* items in one provider response

\* --------------------------------------------------------- program constants
CACHE_DURATION == 5 * 60 * 1000
ClockStep == CACHE_DURATION            \* the clock advances in steps of one TTL

\* ------------------------------------------------------------------ strings
Go == <<"G", "o">>
Languages == { <<>>, Go }
TermValues == { <<>>, <<" ", "x">>, <<"a", "b", "c">>, <<"U+65E5">> }

LanguagePrefix == <<"l", "a", "n", "g", "u", "a", "g", "e", ":">>
StarsSuffix == <<" ", "s", "t", "a", "r", "s", ":", ">", "1", "0">>
KeyPrefix == <<"g", "i", "t", "h", "u", "b", "_", "s", "e", "a", "r", "c", "h", "_">>

CharCode(c) ==
    CASE c = " " -> 32  [] c = "0" -> 48  [] c = "1" -> 49  [] c = ":" -> 58
      [] c = ">" -> 62  [] c = "G" -> 71  [] c = "a" -> 97  [] c = "b" -> 98
      [] c = "c" -> 99  [] c = "e" -> 101 [] c = "g" -> 103 [] c = "l" -> 108
      [] c = "n" -> 110 [] c = "o" -> 111 [] c = "r" -> 114 [] c = "s" -> 115
      [] c = "t" -> 116 [] c = "u" -> 117 [] c = "x" -> 120
      [] c = "U+65E5" -> 26085

IsWhitespace(c) == c = " "

RECURSIVE TrimStart(_)
TrimStart(s) ==
    IF s # <<>> /\ IsWhitespace(Head(s)) THEN TrimStart(Tail(s)) ELSE s

RECURSIVE TrimEnd(_)
TrimEnd(s) ==
    IF s # <<>> /\ IsWhitespace(s[Len(s)])
    THEN TrimEnd(SubSeq(s, 1, Len(s) - 1)) ELSE s

\* String.prototype.trim
Trim(s) == TrimEnd(TrimStart(s))

\* a string is truthy in JavaScript exactly when it is not empty
Truthy(s) == s # <<>>

buildSearchQuery(lang, searchTerm) ==
    LET query == IF Truthy(searchTerm) /\ Truthy(lang)
                 THEN searchTerm \o <<" ">> \o LanguagePrefix \o lang
                 ELSE IF Truthy(lang)
                      THEN LanguagePrefix \o lang
                      ELSE searchTerm
    IN  query \o StarsSuffix

Base64Alphabet ==
    << "A", "B", "C", "D", "E", "F", "G", "H", "I", "J", "K", "L", "M",
       "N", "O", "P", "Q", "R", "S", "T", "U", "V", "W", "X", "Y", "Z",
       "a", "b", "c", "d", "e", "f", "g", "h", "i", "j", "k", "l", "m",
       "n", "o", "p", "q", "r", "s", "t", "u", "v", "w", "x", "y", "z",
       "0", "1", "2", "3", "4", "5", "6", "7", "8", "9", "+", "/" >>

Sextet(n) == Base64Alphabet[n + 1]

RECURSIVE Base64(_)
Base64(bytes) ==
    IF Len(bytes) = 0 THEN <<>>
    ELSE IF Len(bytes) = 1
    THEN << Sextet(bytes[1] \div 4), Sextet((bytes[1] % 4) * 16), "=", "=" >>
    ELSE IF Len(bytes) = 2
    THEN << Sextet(bytes[1] \div 4),
            Sextet((bytes[1] % 4) * 16 + bytes[2] \div 16),
            Sextet((bytes[2] % 16) * 4), "=" >>
    ELSE << Sextet(bytes[1] \div 4),
            Sextet((bytes[1] % 4) * 16 + bytes[2] \div 16),
            Sextet((bytes[2] % 16) * 4 + bytes[3] \div 64),
            Sextet(bytes[3] % 64) >>
         \o Base64(SubSeq(bytes, 4, Len(bytes)))

\* btoa throws InvalidCharacterError on a character outside Latin-1
btoaThrows(s) == \E i \in 1..Len(s) : CharCode(s[i]) > 255

btoa(s) == Base64([i \in 1..Len(s) |-> CharCode(s[i])])

getCacheKey(query) == KeyPrefix \o btoa(query)


\* -------------------------------------------------------------------- state
VARIABLES
    languageSelect,    \* elements.languageSelect.value
    searchTermInput,   \* elements.searchTermInput.value (untrimmed)
    prefs,             \* localStorage item github_searcher_prefs
    searchTimeout,     \* the debounce timer and the criteria its closure captured
    orphanTimers,      \* pending timers this.searchTimeout no longer refers to
    currentResults,    \* this.currentResults
    isLoading,         \* this.isLoading
    abortController,   \* this.abortController: 0 is null, else the id of its request
    cache,             \* this.cache: cache key -> [data, timestamp]
    requests,          \* suspended searchRepositories calls: id -> closure
    fetchCount,        \* number of fetch() calls issued so far
    status,            \* statusDiv: class, message and the count shown in it
    rendered,          \* resultsDiv: the repository cards
    refreshHidden,     \* refreshBtn carries the class "hidden"
    dwell,             \* pending 3-second timers armed by showStatus('success')
    now,               \* Date.now()
    triggers,          \* number of user events so far
    shown,             \* history: query whose resolution last wrote the status
    call,              \* history: the searchRepositories call made by the last step
    lastOp             \* history: the last step

vars == << languageSelect, searchTermInput, prefs, searchTimeout, orphanTimers,
           currentResults,
           isLoading, abortController, cache, requests, fetchCount, status,
           rendered, refreshHidden, dwell, now, triggers, shown, call, lastOp >>

\* the variables searchRepositories and the rendering helpers write
searchVars == << currentResults, isLoading, abortController, requests, fetchCount,
                 status, rendered, refreshHidden, dwell, shown >>

\* burst (history): the text inputs since no timer was pending
NoTimer == [armed |-> FALSE, language |-> <<>>, searchTerm |-> <<>>, latest |-> FALSE,
            burst |-> 0]
NoCall == [made |-> FALSE, language |-> <<>>, searchTerm |-> <<>>]
EmptyCache == [k \in {} |-> 0]
NoRequests == [i \in {} |-> 0]

Op(name) == [op |-> name, id |-> 0, outcome |-> "", n |-> 0]
SettleOp(name, id, outcome, n) == [op |-> name, id |-> id, outcome |-> outcome, n |-> n]

Status(type, message, total) == [type |-> type, message |-> message, total |-> total]

\* the provider's payload for a query: total_count and the items
ProviderData(query, n) ==
    [total_count |-> n, items |-> [i \in 1..n |-> [name |-> i, query |-> query]]]

\* error.message of the three failures the catch block reports
ErrorMessage(outcome) ==
    CASE outcome = "http" -> "Error 503"
      [] outcome = "network" -> "Failed to fetch"
      [] outcome = "badjson" -> "Unexpected end of JSON input"

Live == { id \in DOMAIN requests : ~requests[id].aborted }

Init ==
    /\ prefs \in [language : Languages, searchTerm : TermValues]
    /\ languageSelect = prefs.language
    /\ searchTermInput = prefs.searchTerm
    /\ searchTimeout = NoTimer
    /\ orphanTimers = {}
    /\ currentResults = <<>>
    /\ isLoading = FALSE
    /\ abortController = 0
    /\ cache = EmptyCache
    /\ requests = NoRequests
    /\ fetchCount = 0
    /\ status = Status("", "", 0)
    /\ rendered = <<>>
    /\ refreshHidden = TRUE
    /\ dwell = 0
    /\ now = 0
    /\ triggers = 0
    /\ shown = [query |-> <<>>, latest |-> TRUE]
    /\ call = NoCall
    /\ lastOp = Op("init")

\* --------------------------------------------------------- rendering helpers
\* showStatus: a 'success' banner also arms a 3-second timer
showStatus(type, message, total) ==
    /\ status' = Status(type, message, total)
    /\ dwell' = IF type = "success" THEN dwell + 1 ELSE dwell

clearResults ==
    /\ rendered' = <<>>
    /\ refreshHidden' = TRUE

handleSearchSuccess(data) ==
    IF Len(data.items) > 0
    THEN /\ currentResults' = data.items
         /\ rendered' = data.items
         /\ showStatus("success", "found", data.total_count)
         /\ refreshHidden' = FALSE
    ELSE /\ showStatus("empty", "no results", 0)
         /\ UNCHANGED << currentResults, rendered, refreshHidden >>

\* ------------------------------------------------------- searchRepositories
\* lines 119-123: abort the controller of the outstanding request
AbortOutstanding(reqs) ==
    IF isLoading /\ abortController # 0 /\ abortController \in DOMAIN reqs
    THEN [reqs EXCEPT ![abortController].aborted = TRUE]
    ELSE reqs

\* history: every outstanding request has now been followed by a newer resolution
Supersede(reqs) == [id \in DOMAIN reqs |-> [reqs[id] EXCEPT !.superseded = TRUE]]

\* history: the resolution of a newer user trigger makes every earlier one older
Demote(reqs) == [id \in DOMAIN reqs |-> [reqs[id] EXCEPT !.latest = FALSE]]

\* mutant: the age comparison of line 131 turned around
CacheFreshInverted(cacheKey) ==
    /\ cacheKey \in DOMAIN cache
    /\ now - cache[cacheKey].timestamp > CACHE_DURATION

\* mutant: the comparison of line 131 made inclusive
CacheFreshInclusive(cacheKey) ==
    /\ cacheKey \in DOMAIN cache
    /\ now - cache[cacheKey].timestamp <= CACHE_DURATION

\* mutant: line 131 left out, an entry never expires
CacheFreshNoExpiry(cacheKey) == cacheKey \in DOMAIN cache

\* lines 129-131
CacheFresh(cacheKey) ==
    /\ cacheKey \in DOMAIN cache
    /\ now - cache[cacheKey].timestamp < CACHE_DURATION

\* a call that gets past getCacheKey starts a resolution
Resolves(lang, searchTerm) == ~btoaThrows(buildSearchQuery(lang, searchTerm))

\* The synchronous part of searchRepositories, up to the await of fetch().
\* latest (history): the criteria are those of the most recent user trigger.
searchRepositories(lang, searchTerm, latest) ==
    LET query == buildSearchQuery(lang, searchTerm)
        reqs0 == IF latest /\ ~btoaThrows(query) THEN Demote(requests) ELSE requests
        reqs1 == Supersede(AbortOutstanding(reqs0))
    IN  /\ call' = [made |-> TRUE, language |-> lang, searchTerm |-> searchTerm]
        /\ IF btoaThrows(query)
           THEN \* getCacheKey throws: the call rejects after the abort
                /\ requests' = reqs1
                /\ shown' = shown
                /\ UNCHANGED << currentResults, isLoading, abortController,
                                fetchCount, status, rendered, refreshHidden, dwell >>
           ELSE LET cacheKey == getCacheKey(query)
                IN  IF CacheFresh(cacheKey)
                    THEN /\ requests' = reqs1
                         /\ handleSearchSuccess(cache[cacheKey].data)
                         /\ shown' = [query |-> query, latest |-> latest]
                         /\ UNCHANGED << isLoading, abortController, fetchCount >>
                    ELSE /\ fetchCount' = fetchCount + 1
                         /\ isLoading' = TRUE
                         /\ abortController' = fetchCount + 1
                         /\ showStatus("loading", "loading", 0)
                         /\ clearResults
                         /\ requests' = [id \in DOMAIN reqs1 \cup {fetchCount + 1} |->
                                IF id = fetchCount + 1
                                THEN [query |-> query, cacheKey |-> cacheKey,
                                      stage |-> "fetch", aborted |-> FALSE,
                                      superseded |-> FALSE, latest |-> latest,
                                      startedAt |-> now]
                                ELSE reqs1[id]]
                         /\ shown' = [query |-> query, latest |-> latest]
                         /\ UNCHANGED currentResults


\* ----------------------------------------------------------- user triggers
\* one more user event, within the bound of the run
UserEvent ==
    /\ triggers < MaxTriggers
    /\ triggers' = triggers + 1

\* history: a user trigger leaves the pending debounce closure an older one
DemoteTimer(t) == [t EXCEPT !.latest = FALSE]

handleFormSubmit ==
    LET lang == languageSelect
        searchTerm == Trim(searchTermInput)
    IN  /\ UserEvent
        /\ lastOp' = Op("submit")
        /\ IF ~Truthy(lang) /\ ~Truthy(searchTerm)
           THEN /\ showStatus("empty", "prompt submit", 0)
                /\ requests' = Demote(requests)
                /\ searchTimeout' = DemoteTimer(searchTimeout)
                /\ shown' = [query |-> <<>>, latest |-> TRUE]
                /\ call' = NoCall
                /\ UNCHANGED << currentResults, isLoading, abortController,
                                fetchCount, rendered, refreshHidden >>
           ELSE /\ searchRepositories(lang, searchTerm, TRUE)
                /\ searchTimeout' = IF Resolves(lang, searchTerm)
                                    THEN DemoteTimer(searchTimeout) ELSE searchTimeout
        /\ UNCHANGED << languageSelect, searchTermInput, prefs, orphanTimers, cache, now >>

\* the change event of the select, or Enter pressed on it (lines 112-114)
handleLanguageChange(value) ==
    LET lang == value
        searchTerm == Trim(searchTermInput)
    IN  /\ UserEvent
        /\ lastOp' = Op("language")
        /\ languageSelect' = value
        /\ prefs' = [language |-> value, searchTerm |-> searchTermInput]
        /\ IF Truthy(lang)
           THEN /\ searchRepositories(lang, searchTerm, TRUE)
                /\ searchTimeout' = IF Resolves(lang, searchTerm)
                                    THEN DemoteTimer(searchTimeout) ELSE searchTimeout
           ELSE IF ~Truthy(searchTerm)
           THEN /\ showStatus("empty", "prompt start", 0)
                /\ clearResults
                /\ requests' = Demote(requests)
                /\ searchTimeout' = DemoteTimer(searchTimeout)
                /\ shown' = [query |-> <<>>, latest |-> TRUE]
                /\ call' = NoCall
                /\ UNCHANGED << currentResults, isLoading, abortController, fetchCount >>
           ELSE /\ call' = NoCall
                /\ UNCHANGED << searchVars, searchTimeout >>
        /\ UNCHANGED << searchTermInput, orphanTimers, cache, now >>

\* setTimeout callbacks still pending
PendingTimers == (IF searchTimeout.armed THEN {searchTimeout} ELSE {}) \cup orphanTimers

\* mutant: the clearTimeout of line 82 left out, the old timer stays pending
TimeoutNotCleared ==
    IF searchTimeout.armed THEN orphanTimers \cup {searchTimeout} ELSE orphanTimers
\* the pending timers this.searchTimeout does not refer to, once
\* clearTimeout(this.searchTimeout) has run: the timer it cancels is gone
clearTimeout == orphanTimers

\* mutant: the comparison of line 87 made strict
DebounceLongerThanThree(searchTerm, lang) == Len(searchTerm) > 3 \/ Truthy(lang)
\* the condition of line 87 under which the input arms the timer
DebounceEligible(searchTerm, lang) == Len(searchTerm) >= 3 \/ Truthy(lang)

handleSearchTermInput(value) ==
    LET lang == languageSelect
        searchTerm == Trim(value)
    IN  /\ UserEvent
        /\ lastOp' = Op("input")
        /\ searchTermInput' = value
        /\ call' = NoCall
        /\ orphanTimers' = clearTimeout
        /\ IF DebounceEligible(searchTerm, lang)
           THEN /\ searchTimeout' = [armed |-> TRUE, language |-> lang,
                                     searchTerm |-> searchTerm, latest |-> TRUE,
                                     burst |-> searchTimeout.burst + 1]
                /\ UNCHANGED searchVars
           ELSE IF ~Truthy(searchTerm) /\ ~Truthy(lang)
           THEN /\ searchTimeout' = NoTimer
                /\ showStatus("empty", "prompt start", 0)
                /\ clearResults
                /\ requests' = Demote(requests)
                /\ shown' = [query |-> <<>>, latest |-> TRUE]
                /\ UNCHANGED << currentResults, isLoading, abortController, fetchCount >>
           ELSE /\ searchTimeout' = NoTimer
                /\ UNCHANGED searchVars
        /\ UNCHANGED << languageSelect, prefs, cache, now >>

\* the setTimeout callback of handleSearchTermInput
DebounceFire ==
    \E timer \in PendingTimers :
        /\ lastOp' = SettleOp("timer", 0, "", timer.burst)
        /\ UNCHANGED triggers
        /\ searchRepositories(timer.language, timer.searchTerm, timer.latest)
        /\ IF timer = searchTimeout
           THEN searchTimeout' = NoTimer /\ UNCHANGED orphanTimers
           ELSE orphanTimers' = orphanTimers \ {timer} /\ UNCHANGED searchTimeout
        /\ UNCHANGED << languageSelect, searchTermInput, prefs, cache, now >>

\* the button showStatus('error', ...) renders calls app.retrySearch()
retrySearch ==
    /\ status.type = "error"
    /\ UserEvent
    /\ lastOp' = Op("retry")
    /\ searchRepositories(languageSelect, Trim(searchTermInput), TRUE)
    /\ searchTimeout' = IF Resolves(languageSelect, Trim(searchTermInput))
                        THEN DemoteTimer(searchTimeout) ELSE searchTimeout
    /\ UNCHANGED << languageSelect, searchTermInput, prefs, orphanTimers, cache, now >>

\* mutant: the whole of currentResults handed to displayResults
RandomPickAll(results, randomIndex) == results
\* lines 353-355: the one element displayResults is given
RandomPick(results, randomIndex) == << results[randomIndex] >>

showRandomRepository ==
    /\ UserEvent
    /\ call' = NoCall
    /\ IF Len(currentResults) > 0
       THEN /\ lastOp' = SettleOp("random", 0, "", 1)
            /\ \E randomIndex \in 1..Len(currentResults) :
                   rendered' = RandomPick(currentResults, randomIndex)
       ELSE /\ lastOp' = Op("random")
            /\ UNCHANGED rendered
    /\ UNCHANGED << languageSelect, searchTermInput, prefs, searchTimeout, orphanTimers,
                    currentResults, isLoading, abortController, cache, requests,
                    fetchCount, status, refreshHidden, dwell, now, shown >>

\* handleKeyboardShortcuts, the Escape key
EscapeKey ==
    /\ UserEvent
    /\ lastOp' = Op("escape")
    /\ call' = NoCall
    /\ clearResults
    /\ UNCHANGED << languageSelect, searchTermInput, prefs, searchTimeout, orphanTimers,
                    currentResults, isLoading, abortController, cache, requests,
                    fetchCount, status, dwell, now, shown >>

\* the 3-second callback of showStatus('success')
StatusDwell ==
    /\ dwell > 0
    /\ lastOp' = Op("dwell")
    /\ UNCHANGED triggers
    /\ call' = NoCall
    /\ dwell' = dwell - 1
    /\ status' = IF status.type = "success" THEN Status("", "", 0) ELSE status
    /\ UNCHANGED << languageSelect, searchTermInput, prefs, searchTimeout, orphanTimers,
                    currentResults, isLoading, abortController, cache, requests,
                    fetchCount, rendered, refreshHidden, now, shown >>

\* ------------------------------------------------- the rest of the async call
Without(reqs, id) == [i \in DOMAIN reqs \ {id} |-> reqs[i]]

\* lines 180-183
Finally(id) ==
    /\ isLoading' = FALSE
    /\ abortController' = 0
    /\ requests' = Without(requests, id)

\* lines 168-179, an error that is not an AbortError
ReportError(id, outcome) ==
    /\ showStatus("error", ErrorMessage(outcome), 0)
    /\ shown' = [query |-> requests[id].query, latest |-> requests[id].latest]
    /\ UNCHANGED << currentResults, rendered, refreshHidden, cache >>

\* mutant: the AbortError test of lines 169-171 left out
AbortReported ==
    /\ showStatus("error", "The user aborted a request.", 0)
    /\ UNCHANGED << currentResults, rendered, refreshHidden, cache, shown >>

\* lines 169-171
SilentAbort ==
    UNCHANGED << currentResults, rendered, refreshHidden, cache, status, dwell, shown >>

\* await fetch(url, ...) settles: lines 147-156
FetchSettles(id) ==
    /\ id \in DOMAIN requests
    /\ requests[id].stage = "fetch"
    /\ call' = NoCall
    /\ UNCHANGED triggers
    /\ IF requests[id].aborted
       THEN /\ lastOp' = SettleOp("fetchSettled", id, "abort", 0)
            /\ SilentAbort
            /\ Finally(id)
       ELSE \E outcome \in {"network", "http", "ok"} :
            /\ lastOp' = SettleOp("fetchSettled", id, outcome, 0)
            /\ IF outcome = "ok"
               THEN /\ requests' = [requests EXCEPT ![id].stage = "json"]
                    /\ UNCHANGED << currentResults, rendered, refreshHidden, cache,
                                    status, dwell, shown, isLoading, abortController >>
               ELSE /\ ReportError(id, outcome)
                    /\ Finally(id)
    /\ UNCHANGED << languageSelect, searchTermInput, prefs, searchTimeout, orphanTimers,
                    fetchCount, now >>

\* mutant: only a payload with items is stored
CacheSetNonEmptyOnly(cacheKey, data) ==
    IF Len(data.items) = 0
    THEN cache
    ELSE [k \in DOMAIN cache \cup {cacheKey} |->
            IF k = cacheKey THEN [data |-> data, timestamp |-> now] ELSE cache[k]]

\* lines 161-164
CacheSet(cacheKey, data) ==
    [k \in DOMAIN cache \cup {cacheKey} |->
        IF k = cacheKey THEN [data |-> data, timestamp |-> now] ELSE cache[k]]

\* await response.json() settles: lines 158-166
JsonSettles(id) ==
    /\ id \in DOMAIN requests
    /\ requests[id].stage = "json"
    /\ call' = NoCall
    /\ UNCHANGED triggers
    /\ IF requests[id].aborted
       THEN /\ lastOp' = SettleOp("jsonSettled", id, "abort", 0)
            /\ SilentAbort
            /\ Finally(id)
       ELSE \/ /\ lastOp' = SettleOp("jsonSettled", id, "badjson", 0)
               /\ ReportError(id, "badjson")
               /\ Finally(id)
            \/ \E n \in 0..MaxItems :
               LET data == ProviderData(requests[id].query, n)
               IN  /\ lastOp' = SettleOp("jsonSettled", id, "data", n)
                   /\ cache' = CacheSet(requests[id].cacheKey, data)
                   /\ handleSearchSuccess(data)
                   /\ shown' = [query |-> requests[id].query,
                                latest |-> requests[id].latest]
                   /\ Finally(id)
    /\ UNCHANGED << languageSelect, searchTermInput, prefs, searchTimeout, orphanTimers,
                    fetchCount, now >>

\* ---------------------------------------------------------------- teardown
destroy ==
    /\ UserEvent
    /\ lastOp' = Op("destroy")
    /\ call' = NoCall
    /\ searchTimeout' = NoTimer
    /\ orphanTimers' = clearTimeout
    /\ requests' = IF abortController # 0 /\ abortController \in DOMAIN requests
                   THEN [requests EXCEPT ![abortController].aborted = TRUE]
                   ELSE requests
    /\ cache' = EmptyCache
    /\ UNCHANGED << languageSelect, searchTermInput, prefs, currentResults,
                    isLoading, abortController, fetchCount, status, rendered,
                    refreshHidden, dwell, now, shown >>

\* ------------------------------------------------------------------- clock
\* Date.now() is only ever compared with the timestamp of a cache entry, so
\* time is advanced only while the cache holds one.
Tick ==
    /\ now < MaxTicks * ClockStep
    /\ cache # EmptyCache
    /\ now' = now + ClockStep
    /\ lastOp' = Op("tick")
    /\ UNCHANGED triggers
    /\ call' = NoCall
    /\ UNCHANGED << languageSelect, searchTermInput, prefs, searchTimeout, orphanTimers,
                    currentResults, isLoading, abortController, cache, requests,
                    fetchCount, status, rendered, refreshHidden, dwell, shown >>

Next ==
    \/ handleFormSubmit
    \/ \E value \in Languages : handleLanguageChange(value)
    \/ \E value \in TermValues : handleSearchTermInput(value)
    \/ DebounceFire
    \/ retrySearch
    \/ showRandomRepository
    \/ EscapeKey
    \/ StatusDwell
    \/ \E id \in DOMAIN requests : FetchSettles(id)
    \/ \E id \in DOMAIN requests : JsonSettles(id)
    \/ destroy
    \/ Tick

Spec == Init /\ [][Next]_vars

\* ------------------------------------- the query and the cache key, by themselves
\* Lines 125-126 and 161 applied to two criteria in turn: those of the stored
\* preferences and those of the form fields; the entry cache.set leaves
\* carries the query in its payload.
QueryInit ==
    /\ prefs \in [language : Languages, searchTerm : TermValues]
    /\ languageSelect \in Languages
    /\ searchTermInput \in TermValues
    /\ searchTimeout = NoTimer
    /\ orphanTimers = {}
    /\ currentResults = <<>>
    /\ isLoading = FALSE
    /\ abortController = 0
    /\ cache = EmptyCache
    /\ requests = NoRequests
    /\ fetchCount = 0
    /\ status = Status("", "", 0)
    /\ rendered = <<>>
    /\ refreshHidden = TRUE
    /\ dwell = 0
    /\ now = 0
    /\ triggers = 0
    /\ shown = [query |-> <<>>, latest |-> TRUE]
    /\ call = NoCall
    /\ lastOp = Op("init")

KeyCriteria(lang, searchTerm, id) ==
    LET query == buildSearchQuery(lang, searchTerm)
    IN  /\ Truthy(lang) \/ Truthy(searchTerm)
        /\ call' = [made |-> TRUE, language |-> lang, searchTerm |-> searchTerm]
        /\ IF btoaThrows(query)
           THEN /\ lastOp' = SettleOp("keyed", id, "throws", 0)
                /\ UNCHANGED << cache, shown >>
           ELSE /\ lastOp' = SettleOp("keyed", id, "key", 0)
                /\ cache' = CacheSet(getCacheKey(query), ProviderData(query, 1))
                /\ shown' = [query |-> query, latest |-> TRUE]
        /\ UNCHANGED << languageSelect, searchTermInput, prefs, searchTimeout,
                        orphanTimers, currentResults, isLoading, abortController,
                        requests, fetchCount, status, rendered, refreshHidden,
                        dwell, now, triggers >>

KeyFirst ==
    /\ lastOp.op = "init"
    /\ KeyCriteria(prefs.language, Trim(prefs.searchTerm), 1)

KeySecond ==
    /\ lastOp.op = "keyed" /\ lastOp.id = 1
    /\ KeyCriteria(languageSelect, Trim(searchTermInput), 2)

QueryNext == KeyFirst \/ KeySecond

QuerySpec == QueryInit /\ [][QueryNext]_vars


\* ================================================================== claims
Settled(id) == lastOp'.op \in {"fetchSettled", "jsonSettled"} /\ lastOp'.id = id

CallQuery(c) == buildSearchQuery(c.language, c.searchTerm)

\* C1: when a resolution B is triggered while the request of resolution A is
\* still outstanding, no later settlement of A (success or error) changes the
\* status, the rendered results, currentResults or the cache.
SupersededOutcomeUnobserved ==
    [][\A id \in DOMAIN requests :
          (requests[id].superseded /\ Settled(id))
              => UNCHANGED << status, rendered, currentResults, cache >>]_vars

\* C2: in every reachable state at most one request that has not been aborted
\* is outstanding.
AtMostOneLiveRequest == Cardinality(Live) <= 1

\* C3: results are applied in trigger order: once no debounce timer is pending
\* and no request is outstanding, the displayed outcome is the one of the most
\* recent user trigger that started a resolution.
Quiescent == ~searchTimeout.armed /\ requests = NoRequests

DisplayedIsLatestTrigger == Quiescent => shown.latest


\* the outcome handleSearchSuccess displays for a payload
Displays(data) ==
    IF Len(data.items) > 0
    THEN /\ status'.type = "success" /\ status'.total = data.total_count
         /\ currentResults' = data.items
         /\ rendered' = data.items
    ELSE status' = Status("empty", "no results", 0)

\* C4 (as stated): a resolution with the same criteria as an earlier one that
\* started less than TTL ago (its request still outstanding, or its 2xx response
\* cached) issues no network call: it is served from the cache without Loading.
OneCallPerCriteriaWithinTTL ==
    [][call'.made /\ Resolves(call'.language, call'.searchTerm)
          => LET key == getCacheKey(CallQuery(call'))
             IN  /\ (\E id \in DOMAIN requests :
                        /\ requests[id].cacheKey = key
                        /\ now - requests[id].startedAt < CACHE_DURATION)
                    => fetchCount' = fetchCount /\ status'.type # "loading"
                 /\ (key \in DOMAIN cache /\ now - cache[key].timestamp < CACHE_DURATION)
                    => /\ fetchCount' = fetchCount
                       /\ status'.type # "loading"
                       /\ Displays(cache[key].data)]_vars

\* C4 (amended): a resolution that starts while the cache holds an entry for
\* its query stored less than TTL ago issues no network call, does not enter
\* Loading and yields the stored result set.
FreshEntryServedFromCache ==
    [][call'.made /\ Resolves(call'.language, call'.searchTerm)
          => LET key == getCacheKey(CallQuery(call'))
             IN  (key \in DOMAIN cache /\ now - cache[key].timestamp < CACHE_DURATION)
                    => /\ fetchCount' = fetchCount
                       /\ status'.type # "loading"
                       /\ Displays(cache[key].data)]_vars

\* a second resolution of a query was just served from the entry the only
\* network call stored
ServedFromCacheWitness ==
    /\ call.made
    /\ Resolves(call.language, call.searchTerm)
    /\ fetchCount = 1
    /\ requests = NoRequests
    /\ status.type = "success"
    /\ getCacheKey(CallQuery(call)) \in DOMAIN cache
    /\ rendered = cache[getCacheKey(CallQuery(call))].data.items

EmptyDataSettled ==
    lastOp.op = "jsonSettled" /\ lastOp.outcome = "data" /\ lastOp.n = 0

NeverSearchesEmptyCriteria ==
    call.made => Truthy(call.language) \/ Truthy(call.searchTerm)


\* C7: a resolution performed when the cache entry of its query is older than
\* TTL issues a new network call and enters Loading whatever the entry holds,
\* and the 2xx payload of a request overwrites the entry with the current time.
ExpiredEntryRefetched ==
    [][/\ (call'.made /\ Resolves(call'.language, call'.searchTerm))
            => LET key == getCacheKey(CallQuery(call'))
               IN  (key \in DOMAIN cache /\ now - cache[key].timestamp > CACHE_DURATION)
                      => /\ fetchCount' = fetchCount + 1
                         /\ status'.type = "loading"
                         /\ fetchCount' \in DOMAIN requests'
                         /\ requests'[fetchCount'].cacheKey = key
                         /\ ~requests'[fetchCount'].aborted
       /\ \A id \in DOMAIN requests :
             (Settled(id) /\ lastOp'.outcome = "data")
                => /\ requests[id].cacheKey \in DOMAIN cache'
                   /\ cache'[requests[id].cacheKey] =
                         [data |-> ProviderData(requests[id].query, lastOp'.n),
                          timestamp |-> now']]_vars

\* a resolution has just issued a request although the cache holds an entry,
\* older than TTL, for its query
ExpiredEntryWitness ==
    /\ call.made
    /\ Resolves(call.language, call.searchTerm)
    /\ getCacheKey(CallQuery(call)) \in DOMAIN cache
    /\ now - cache[getCacheKey(CallQuery(call))].timestamp > CACHE_DURATION
    /\ status.type = "loading"
    /\ fetchCount \in Live
    /\ requests[fetchCount].query = CallQuery(call)

IsFailure(outcome) == outcome \in {"http", "network", "badjson"}

\* C8: a non-2xx response or a transport failure of a request that was not
\* superseded yields Error with its message (the error banner is what carries
\* the retry button, which retrySearch is guarded by); Error is
\* entered by nothing else, in particular not by an aborted request nor by a
\* trigger with empty criteria.
OnlyFailuresReachError ==
    [][/\ \A id \in DOMAIN requests :
             (Settled(id) /\ IsFailure(lastOp'.outcome) /\ ~requests[id].superseded)
                => status' = Status("error", ErrorMessage(lastOp'.outcome), 0)
       /\ \A id \in DOMAIN requests :
             (Settled(id) /\ requests[id].aborted) => status' = status
       /\ (status'.type = "error" /\ status' # status)
             => \E id \in DOMAIN requests :
                   /\ Settled(id)
                   /\ IsFailure(lastOp'.outcome)
                   /\ ~requests[id].aborted]_vars

ProviderErrorWitness ==
    /\ lastOp.op = "fetchSettled"
    /\ lastOp.outcome = "http"
    /\ status = Status("error", "Error 503", 0)

\* C9: in every Error state, retry issues the query of the resolution whose
\* failure produced that Error state.
RetryReissuesFailedQuery ==
    [][lastOp'.op = "retry" => CallQuery(call') = shown.query]_vars

\* C10: right after teardown no debounce timer is pending, no request that has
\* not been aborted is outstanding and the cache is empty.
TeardownLeavesNothingLive ==
    lastOp.op = "destroy" =>
        /\ ~searchTimeout.armed
        /\ Live = {}
        /\ cache = EmptyCache

NonEmptyCriteria(lang, searchTerm) == Truthy(lang) \/ Truthy(searchTerm)

\* C11: whatever came before, a call of searchRepositories with non-empty
\* criteria is accepted, that is, it serves the query from the cache or enters
\* Loading with a request of its own; and a request that was neither aborted
\* nor superseded leaves Loading for Success, Empty or Error when it completes.
NoOutcomeWedges ==
    [][/\ (call'.made /\ NonEmptyCriteria(call'.language, call'.searchTerm))
            => \/ /\ fetchCount' = fetchCount + 1
                  /\ isLoading'
                  /\ status'.type = "loading"
                  /\ shown'.query = CallQuery(call')
               \/ /\ fetchCount' = fetchCount
                  /\ status'.type \in {"success", "empty"}
                  /\ shown'.query = CallQuery(call')
       /\ \A id \in DOMAIN requests :
             (/\ Settled(id)
              /\ id \notin DOMAIN requests'
              /\ ~requests[id].aborted
              /\ ~requests[id].superseded)
                => status'.type \in {"success", "empty", "error"}]_vars

\* the Orchestrator states other than Success, as the page shows them
OutsideSuccess == searchTimeout.armed \/ status.type \in {"loading", "empty", "error"}

\* C12: the random pick renders nothing unless the orchestrator is in Success:
\* while a debounce timer is pending or the status is loading, empty or error,
\* showRandomRepository leaves the rendered list alone.
RandomPickOnlyInSuccess ==
    [][(lastOp'.op = "random" /\ OutsideSuccess)
          => (lastOp'.n = 0 /\ rendered' = rendered)]_vars

\* C13: when currentResults is not empty, showRandomRepository renders exactly
\* one card, an element of currentResults, and leaves the status,
\* currentResults, the cache, the debounce timer and the requests in flight as
\* they were, without a network call; currentResults itself is only ever
\* replaced by the items of a resolution that displays Success.
RandomPickRendersOneRetainedItem ==
    [][/\ (lastOp'.op = "random" /\ Len(currentResults) > 0)
            => /\ Len(rendered') = 1
               /\ \E i \in 1..Len(currentResults) : rendered'[1] = currentResults[i]
               /\ UNCHANGED << status, currentResults, cache, searchTimeout,
                               orphanTimers, requests, isLoading, abortController,
                               fetchCount >>
       /\ currentResults' # currentResults
            => /\ status'.type = "success"
               /\ rendered' = currentResults'
               /\ \A i \in 1..Len(currentResults') :
                      currentResults'[i].query = shown'.query]_vars

RandomPickWitness ==
    /\ lastOp.op = "random"
    /\ status.type = "success"
    /\ Len(currentResults) = 2
    /\ Len(rendered) = 1
    /\ rendered[1] = currentResults[2]

\* the three formats, character by character
ExpectedQuery(lang, searchTerm) ==
    IF searchTerm # <<>> /\ lang # <<>>
    THEN searchTerm \o <<" ", "l", "a", "n", "g", "u", "a", "g", "e", ":">> \o lang
            \o <<" ", "s", "t", "a", "r", "s", ":", ">", "1", "0">>
    ELSE IF lang # <<>>
    THEN <<"l", "a", "n", "g", "u", "a", "g", "e", ":">> \o lang
            \o <<" ", "s", "t", "a", "r", "s", ":", ">", "1", "0">>
    ELSE searchTerm \o <<" ", "s", "t", "a", "r", "s", ":", ">", "1", "0">>

\* the cache holds an entry stored for the query
HasEntryFor(query) ==
    \E k \in DOMAIN cache : cache[k].data.items[1].query = query

BothKeyed == lastOp.op = "keyed" /\ lastOp.id = 2

\* C14: for any two non-empty criteria, each is keyed under the query of one of
\* the three formats ("<term> language:<language> stars:>10",
\* "language:<language> stars:>10", "<term> stars:>10"), and the two end up in
\* one and the same cache entry exactly when their queries are equal.
QueryAndKeyAreFunctionsOfCriteria ==
    BothKeyed =>
        LET queryA == ExpectedQuery(prefs.language, Trim(prefs.searchTerm))
            queryB == ExpectedQuery(languageSelect, Trim(searchTermInput))
        IN  /\ HasEntryFor(queryA)
            /\ HasEntryFor(queryB)
            /\ (Cardinality(DOMAIN cache) = 1) <=> (queryA = queryB)

\* C15: at most one debounce timer is pending in any state; after a text input
\* the only timer that can be pending is the one that input armed, with the
\* language selected and the trimmed term typed at that input; and when the
\* timer fires it makes one call of searchRepositories with those criteria and
\* leaves no timer pending, so a burst of inputs starts one resolution, that of
\* its last input.
DebounceSingleSlot ==
    [][/\ Cardinality(PendingTimers) <= 1
       /\ Cardinality(PendingTimers') <= 1
       /\ lastOp'.op = "input"
            => \A timer \in PendingTimers' :
                  /\ timer.language = languageSelect
                  /\ timer.searchTerm = Trim(searchTermInput')
       /\ lastOp'.op = "timer"
            => /\ searchTimeout.armed
               /\ call' = [made |-> TRUE, language |-> searchTimeout.language,
                           searchTerm |-> searchTimeout.searchTerm]
               /\ fetchCount' <= fetchCount + 1
               /\ PendingTimers' = {}]_vars

\* two inputs in a row, then the timer: one request, for the second input
BurstWitness ==
    /\ lastOp.op = "timer"
    /\ lastOp.n = 2
    /\ fetchCount = 1
    /\ call.made
    /\ call.searchTerm = <<"a", "b", "c">>
    /\ call.searchTerm = Trim(searchTermInput)
    /\ PendingTimers = {}

PromptStart == Status("empty", "prompt start", 0)

\* the page as it is in Idle: a prompt or the blank status of a fresh page,
\* no cards, no random-pick button
IdlePage(st, cards, hidden) ==
    /\ st \in {PromptStart, Status("empty", "prompt submit", 0), Status("", "", 0)}
    /\ cards = <<>>
    /\ hidden

\* C16 (as stated): a text input arms the debounce timer exactly when the
\* trimmed term has at least 3 characters or a language is selected; any other
\* text input schedules nothing, leaves no timer pending and resets the page to
\* Idle (the prompt, no cards, no random-pick button).
TextInputSchedulesOrResets ==
    [][lastOp'.op = "input"
          => LET searchTerm == Trim(searchTermInput')
             IN  /\ ~call'.made
                 /\ IF Len(searchTerm) >= 3 \/ languageSelect # <<>>
                    THEN searchTimeout'.armed
                    ELSE /\ PendingTimers' = {}
                         /\ IdlePage(status', rendered', refreshHidden')]_vars

\* C16 (amended): as above, except that the reset to Idle happens only when
\* the trimmed term is empty; a term of 1 or 2 characters with no language
\* cancels the pending timer and leaves the status, the cards and the button
\* as they were.
TextInputSchedulesOrCancels ==
    [][lastOp'.op = "input"
          => LET searchTerm == Trim(searchTermInput')
             IN  /\ ~call'.made
                 /\ IF Len(searchTerm) >= 3 \/ languageSelect # <<>>
                    THEN /\ searchTimeout'.armed
                         /\ searchTimeout'.searchTerm = searchTerm
                         /\ searchTimeout'.language = languageSelect
                         /\ UNCHANGED << status, rendered, refreshHidden >>
                    ELSE /\ PendingTimers' = {}
                         /\ IF searchTerm = <<>>
                            THEN /\ status' = PromptStart
                                 /\ rendered' = <<>>
                                 /\ refreshHidden'
                            ELSE UNCHANGED << status, rendered, refreshHidden >>]_vars

\* one character typed, no language, over the cards of an earlier Success
ShortTermWitness ==
    /\ lastOp.op = "input"
    /\ Trim(searchTermInput) = <<"x">>
    /\ languageSelect = <<>>
    /\ PendingTimers = {}
    /\ status.type = "success"
    /\ rendered # <<>>
    /\ ~refreshHidden

\* a resolution of the criteria was attempted by the step: a call that served
\* the query from the cache or entered Loading with a new request
ResolvedAtOnce(lang, searchTerm) ==
    /\ call' = [made |-> TRUE, language |-> lang, searchTerm |-> searchTerm]
    /\ shown'.query = ExpectedQuery(lang, searchTerm)
    /\ \/ /\ fetchCount' = fetchCount
          /\ status'.type \in {"success", "empty"}
       \/ /\ fetchCount' = fetchCount + 1
          /\ status'.type = "loading"
          /\ isLoading'

\* C17: a mount that restores non-empty preferences has attempted their
\* resolution by the time construction is over, and every submit, language
\* change (also one to no language while a term is present) and retry with
\* non-empty criteria attempts the resolution within the handler itself.
DiscreteTriggersResolveAtOnce ==
    /\ (lastOp.op = "init" /\ NonEmptyCriteria(prefs.language, Trim(prefs.searchTerm)))
          => (call.made \/ status.type \in {"loading", "success", "empty"})
    /\ [][(/\ lastOp'.op \in {"submit", "language", "retry"}
            /\ NonEmptyCriteria(languageSelect', Trim(searchTermInput')))
              => ResolvedAtOnce(languageSelect', Trim(searchTermInput'))]_vars

\* the call the step makes finds an entry for its query in the cache
CallFindsEntry ==
    /\ call'.made
    /\ Resolves(call'.language, call'.searchTerm)
    /\ getCacheKey(CallQuery(call')) \in DOMAIN cache

\* the age of that entry at the call
EntryAge == now - cache[getCacheKey(CallQuery(call'))].timestamp

ServedWithoutFetch == fetchCount' = fetchCount /\ status'.type \in {"success", "empty"}
Refetched == fetchCount' = fetchCount + 1 /\ status'.type = "loading"

\* C18 (as stated): an entry is expired exactly when now - timestamp > TTL: a
\* resolution that finds an entry of age at most TTL, exactly TTL included, is
\* served from it without a fetch, and only a strictly older entry is refetched.
EntryExpiresAfterTTL ==
    [][CallFindsEntry
          => IF EntryAge <= CACHE_DURATION THEN ServedWithoutFetch ELSE Refetched]_vars

\* C18 (amended): an entry is expired exactly when now - timestamp >= TTL: only
\* an entry of age strictly below TTL is served; one of age exactly TTL is
\* refetched like any older one.
EntryExpiresAtTTL ==
    [][CallFindsEntry
          => IF EntryAge < CACHE_DURATION THEN ServedWithoutFetch ELSE Refetched]_vars

\* a resolution has just issued a request although the cache holds an entry
\* for its query that is exactly TTL old
EntryAgedTTLWitness ==
    /\ call.made
    /\ Resolves(call.language, call.searchTerm)
    /\ getCacheKey(CallQuery(call)) \in DOMAIN cache
    /\ now - cache[getCacheKey(CallQuery(call))].timestamp = CACHE_DURATION
    /\ status.type = "loading"
    /\ fetchCount \in Live
    /\ requests[fetchCount].query = CallQuery(call)
    /\ requests[fetchCount].startedAt = now

\* C19: while a request that was not aborted is outstanding, isLoading is true
\* and abortController is the controller of such a request, whatever aborted
\* request has completed in between; and isLoading is true only while the
\* request of abortController is outstanding.
LoadingFlagTracksLiveRequest ==
    /\ Live # {} => (isLoading /\ abortController \in Live)
    /\ isLoading => abortController \in DOMAIN requests

\* the page in one of the states Idle (prompt), Loading, Empty or Error
\* (both prompts and the no-results banner have the type 'empty')
ShowsNoOutcome == status.type \in {"loading", "empty", "error"}

\* C20: while the status is a prompt, loading, no-results or an error, no card
\* is rendered and the random-pick button is hidden; and whatever cards are
\* rendered are items of the query whose outcome the status shows.
CardsOnlyInSuccess ==
    /\ ShowsNoOutcome => (rendered = <<>> /\ refreshHidden)
    /\ rendered # <<>>
          => /\ status.type \in {"success", ""}
             /\ \A i \in 1..Len(rendered) : rendered[i].query = shown.query

====
